---- MODULE Spec2Model ----
(***************************************************************************)
(* SenseSafe admin dashboard: the multi-source alert unification engine.   *)
(*                                                                         *)
(*   services/api.js   getAllAlertsForAdmin, resolveSOS, resolveIncident,  *)
(*                     markMessageAsRead                                   *)
(*   App.jsx           fetchData, the two polling effects, handleLogin     *)
(*   AdminActions.jsx  fetchAlerts, handleResolve, handleMarkRead and the  *)
(*                     buttons that call them                              *)
(*                                                                         *)
(* The specifications share the pure operators:                            *)
(*   SpecAgg      getAllAlertsForAdmin as a function of the three responses*)
(*   SpecAdapt    the three adapters on one raw record each                *)
(*   Spec         one mounted AdminActions page against the backend        *)
(*   SpecHandler  the page's two handlers called with any argument         *)
(*   SpecLoad     the page's fetchAlerts alone, with fairness              *)
(*   SpecApp      the App shell (login, initial fetch, 10 s interval)      *)
(*   SpecAppLife  the App shell up to its unmount                          *)
(***************************************************************************)
EXTENDS Integers, Sequences, FiniteSets, Bags, TLC

VARIABLES
    aggIn,        \* SpecAgg: the three settled responses of Promise.allSettled
    aggOut,       \* SpecAgg: what getAllAlertsForAdmin resolved to
    aggPc,        \* SpecAgg: "build" while the responses are being chosen, then "done"
    backend,      \* the three upstream collections, as the backend holds them
    fetches,      \* calls of getAllAlertsForAdmin in flight, in the order they started
    held,         \* history: whether the snapshot last applied came from a superseded call,
                  \* or "discarded" when the last completion was dropped
    alerts,       \* AdminActions: useState([])
    stats,        \* AdminActions: useState({total, unread, sos_count, incident_count})
    isLoading,    \* AdminActions: useState(true)
    mounted,      \* AdminActions: whether the mount effect has run
    muts,         \* AdminActions: the bag of handleResolve / handleMarkRead calls in flight
    acked,        \* history: ids whose backend mutation succeeded and was applied locally
    justApplied,  \* history: the last step was fetchAlerts applying a snapshot
    appMounted,   \* App: the component is mounted
    appLoggedIn,  \* App: useState(() => !!localStorage.getItem('token'))
    appIsLoading, \* App: useState(true)
    appAlerts,    \* App: useState([]), the converted alerts
    appStats,     \* App: useState({total, unread, by_type})
    appEffects,   \* App: the two effects are due to run (first render, or isLoggedIn changed)
    appInterval   \* App: the setInterval timer is set

aggVars == <<aggIn, aggOut, aggPc>>
netVars == <<backend, fetches, held>>
pageVars == <<alerts, stats, isLoading, mounted, muts, acked, justApplied>>

appVars == <<appMounted, appLoggedIn, appIsLoading, appAlerts, appStats, appEffects, appInterval>>

vars == <<aggIn, aggOut, aggPc, backend, fetches, held,
          alerts, stats, isLoading, mounted, muts, acked, justApplied,
          appMounted, appLoggedIn, appIsLoading, appAlerts, appStats, appEffects, appInterval>>

(***************************************************************************)
(* Bounds                                                                  *)
(***************************************************************************)
MaxRecords == 3         \* records over the three sources in one aggregation
MaxMutations == 1       \* handleResolve / handleMarkRead calls awaiting the backend at once

Sources == {"messages", "sos", "incidents"}

MessageTypes == {"SOS", "INCIDENT", "GENERAL"}
RawReadFlags == {"true", "false", "undefined"}
SOSStatuses == {"NEED_HELP", "SAFE"}
IncidentStatuses == {"PENDING", "VERIFIED", "RESOLVED"}
Times == {1, 2}

(***************************************************************************)
(* Helpers over sequences                                                  *)
(***************************************************************************)
\* array.filter(P).length
CountIf(s, P(_)) == Cardinality({i \in 1..Len(s) : P(s[i])})

MapSeq(s, F(_)) == [i \in 1..Len(s) |-> F(s[i])]

(***************************************************************************)
(* Source adapters (api.js, inside getAllAlertsForAdmin)                   *)
(***************************************************************************)
\* Boolean(msg.is_read) on the JSON value of the field
ToBoolean(v) == v = "true"

\* x || fallback on a string field that may be absent
OrElse(v, fallback) == IF v = "undefined" THEN fallback ELSE v

\* formattedMessages: { ...msg, id: msg.id, sourceType: 'MESSAGE', is_read: Boolean(msg.is_read) }
FormatMessage(msg) ==
    [id           |-> msg.id,
     message_type |-> msg.message_type,
     sourceType   |-> "MESSAGE",
     title        |-> msg.title,
     severity     |-> "undefined",
     is_read      |-> ToBoolean(msg.is_read),
     created_at   |-> msg.created_at,
     status       |-> "undefined",
     backendId    |-> "undefined"]

\* formattedSOS with is_read left false whatever the status
FormatSOSAsUnread(sos) ==
    [id           |-> sos.id,
     message_type |-> "SOS",
     sourceType   |-> "SOS",
     title        |-> "SOS Alert (" \o OrElse(sos.ability, "Unknown") \o ")",
     severity     |-> "critical",
     is_read      |-> FALSE,
     created_at   |-> sos.created_at,
     status       |-> sos.status,
     backendId    |-> sos.id]

\* formattedSOS
FormatSOS(sos) ==
    [id           |-> sos.id,
     message_type |-> "SOS",
     sourceType   |-> "SOS",
     title        |-> "SOS Alert (" \o OrElse(sos.ability, "Unknown") \o ")",
     severity     |-> "critical",
     is_read      |-> sos.status = "SAFE",
     created_at   |-> sos.created_at,
     status       |-> sos.status,
     backendId    |-> sos.id]

\* inc.risk_level?.toLowerCase()
ToLowerCase(v) ==
    CASE v = "LOW" -> "low"
      [] v = "MEDIUM" -> "medium"
      [] v = "HIGH" -> "high"
      [] v = "CRITICAL" -> "critical"
      [] OTHER -> v

\* formattedIncidents with risk_level passed on in its own case
FormatIncidentKeepsCase(inc) ==
    [id           |-> inc.id,
     message_type |-> "INCIDENT",
     sourceType   |-> "INCIDENT",
     title        |-> "Incident: " \o inc.type,
     severity     |-> OrElse(inc.risk_level, "medium"),
     is_read      |-> inc.status = "RESOLVED" \/ inc.status = "VERIFIED",
     created_at   |-> inc.created_at,
     status       |-> inc.status,
     backendId    |-> inc.id]

\* formattedIncidents
FormatIncident(inc) ==
    [id           |-> inc.id,
     message_type |-> "INCIDENT",
     sourceType   |-> "INCIDENT",
     title        |-> "Incident: " \o inc.type,
     severity     |-> OrElse(ToLowerCase(inc.risk_level), "medium"),
     is_read      |-> inc.status = "RESOLVED" \/ inc.status = "VERIFIED",
     created_at   |-> inc.created_at,
     status       |-> inc.status,
     backendId    |-> inc.id]

(***************************************************************************)
(* Aggregator (api.js, getAllAlertsForAdmin)                               *)
(***************************************************************************)
\* A settled response: status is the allSettled status; data says whether
\* value.data carries the source's key ("list"), lacks it ("absent") or holds
\* a truthy value that is no array ("malformed"); items is the array.
Response(status, data, items) == [status |-> status, data |-> data, items |-> items]

\* res.status === 'fulfilled' && res.value.data?.key ? res.value.data.key : []
Extract(res) ==
    IF res.status = "fulfilled" /\ res.data # "absent" THEN res.items ELSE <<>>

\* Promise.all in place of Promise.allSettled: one rejection rejects the join
ThrowsOnRejection(in) ==
    \E src \in Sources :
        \/ in[src].status = "rejected"
        \/ in[src].status = "fulfilled" /\ in[src].data = "malformed"

\* the extracted value of a fulfilled response is used with .map: a truthy
\* value that is no array throws a TypeError inside the try block
Throws(in) ==
    \E src \in Sources : in[src].status = "fulfilled" /\ in[src].data = "malformed"

\* allItems.sort((a, b) => new Date(b.created_at) - new Date(a.created_at)):
\* Array.prototype.sort is stable, so an element goes after every element
\* that does not sort strictly after it
RECURSIVE InsertDesc(_, _)
InsertDesc(x, sorted) ==
    IF sorted = <<>> THEN <<x>>
    ELSE IF Head(sorted).created_at >= x.created_at
         THEN <<Head(sorted)>> \o InsertDesc(x, Tail(sorted))
         ELSE <<x>> \o sorted

RECURSIVE SortFrom(_, _)
SortFrom(items, acc) ==
    IF items = <<>> THEN acc
    ELSE SortFrom(Tail(items), InsertDesc(Head(items), acc))

\* the combined list as it is before the sort
SortLeftOut(items) == items

SortDesc(items) == SortFrom(items, <<>>)

IsUnread(m) == ~m.is_read
IsSOS(m) == m.message_type = "SOS"
IsIncident(m) == m.message_type = "INCIDENT"
IsGeneral(m) == m.message_type = "GENERAL"

ComputeStatsUnreadAsRead(allItems) ==
    [total          |-> Len(allItems),
     unread         |-> CountIf(allItems, LAMBDA m : m.is_read),
     sos_count      |-> CountIf(allItems, IsSOS),
     incident_count |-> CountIf(allItems, IsIncident),
     by_type        |-> [SOS      |-> CountIf(allItems, IsSOS),
                         INCIDENT |-> CountIf(allItems, IsIncident),
                         GENERAL  |-> CountIf(allItems, IsGeneral)]]

\* const stats = { total, unread, sos_count, incident_count, by_type }
ComputeStats(allItems) ==
    [total          |-> Len(allItems),
     unread         |-> CountIf(allItems, IsUnread),
     sos_count      |-> CountIf(allItems, IsSOS),
     incident_count |-> CountIf(allItems, IsIncident),
     by_type        |-> [SOS      |-> CountIf(allItems, IsSOS),
                         INCIDENT |-> CountIf(allItems, IsIncident),
                         GENERAL  |-> CountIf(allItems, IsGeneral)]]

\* the literal returned by the catch block
EmptySnapshot ==
    [messages |-> <<>>,
     stats    |-> [total |-> 0, unread |-> 0, sos_count |-> 0, incident_count |-> 0,
                   by_type |-> [SOS |-> 0, INCIDENT |-> 0, GENERAL |-> 0]]]

\* the try block with formattedSOS left out of allItems
CombinedWithoutSOS(in) ==
    LET allItems == SortDesc(MapSeq(Extract(in.messages), FormatMessage)
                             \o MapSeq(Extract(in.incidents), FormatIncident))
    IN  [messages |-> allItems, stats |-> ComputeStats(allItems)]

\* the try block: format, combine, sort, count
Combined(in) ==
    LET allItems == SortDesc(MapSeq(Extract(in.messages), FormatMessage)
                             \o MapSeq(Extract(in.sos), FormatSOS)
                             \o MapSeq(Extract(in.incidents), FormatIncident))
    IN  [messages |-> allItems, stats |-> ComputeStats(allItems)]

\* how the promise returned by the async function settles
Resolved(snapshot) == [settled |-> "resolved", value |-> snapshot]
Rejected == [settled |-> "rejected", value |-> EmptySnapshot]

CatchRethrows(in) == IF Throws(in) THEN Rejected ELSE Resolved(Combined(in))

\* export const getAllAlertsForAdmin = async () => { try { ... } catch { return empty } }
getAllAlertsForAdmin(in) ==
    IF Throws(in) THEN Resolved(EmptySnapshot) ELSE Resolved(Combined(in))

(***************************************************************************)
(* SpecAgg: getAllAlertsForAdmin over bounded responses                    *)
(***************************************************************************)
NoResult == [settled |-> "pending", value |-> EmptySnapshot]

Outcomes ==
    {Response("fulfilled", "list", <<>>), Response("fulfilled", "absent", <<>>),
     Response("fulfilled", "malformed", <<>>), Response("rejected", "absent", <<>>)}

TotalRecords(in) ==
    Len(in.messages.items) + Len(in.sos.items) + Len(in.incidents.items)

\* upstream identifiers are distinct: the n-th record of a source
IdOf(prefix, n) == prefix \o ToString(n)

RawMessage(id, type, read, t) ==
    [id |-> id, message_type |-> type, title |-> "undefined", is_read |-> read, created_at |-> t]

RawSOS(id, status, ability, t) ==
    [id |-> id, status |-> status, ability |-> ability, created_at |-> t]

RawIncident(id, status, type, risk, t) ==
    [id |-> id, status |-> status, type |-> type, risk_level |-> risk, created_at |-> t]

(***************************************************************************)
(* The parts a specification does not exercise stay in these states        *)
(***************************************************************************)
EmptyBackend == [src \in Sources |-> <<>>]

ZeroStats == [total |-> 0, unread |-> 0, sos_count |-> 0, incident_count |-> 0]

AggIdle ==
    /\ aggIn = [src \in Sources |-> Response("rejected", "absent", <<>>)]
    /\ aggOut = NoResult
    /\ aggPc = "idle"

NetIdle ==
    /\ backend = EmptyBackend
    /\ fetches = <<>>
    /\ held = "none"

\* App's initial stats object
AppZeroStats ==
    [total |-> 0, unread |-> 0, by_type |-> [SOS |-> 0, INCIDENT |-> 0, GENERAL |-> 0]]

AppIdle ==
    /\ appMounted = FALSE
    /\ appLoggedIn = FALSE
    /\ appIsLoading = TRUE
    /\ appAlerts = <<>>
    /\ appStats = AppZeroStats
    /\ appEffects = FALSE
    /\ appInterval = FALSE

PageIdle ==
    /\ alerts = <<>>
    /\ stats = ZeroStats
    /\ isLoading = TRUE
    /\ mounted = FALSE
    /\ muts = EmptyBag
    /\ acked = {}
    /\ justApplied = FALSE

\* which requests will deliver a list is fixed first, so that records are
\* only drawn for the sources that deliver them
Delivering == Response("fulfilled", "list", <<>>)
NotDelivering == Response("rejected", "absent", <<>>)

AggInit ==
    /\ aggIn \in [Sources -> {Delivering, NotDelivering}]
    /\ aggOut = NoResult
    /\ aggPc = "build"
    /\ NetIdle
    /\ PageIdle
    /\ AppIdle

CanAdd(src) ==
    /\ aggPc = "build"
    /\ aggIn[src].data = "list"
    /\ TotalRecords(aggIn) < MaxRecords

AddTo(src, rec) ==
    /\ aggIn' = [aggIn EXCEPT ![src].items = Append(@, rec)]
    /\ UNCHANGED <<aggOut, aggPc, netVars, pageVars, appVars>>

AggAddMessage ==
    /\ CanAdd("messages")
    /\ \E type \in MessageTypes, read \in RawReadFlags, t \in Times :
          AddTo("messages",
                RawMessage(IdOf("m", Len(aggIn.messages.items) + 1), type, read, t))

AggAddSOS ==
    /\ CanAdd("sos")
    /\ \E status \in SOSStatuses, t \in Times :
          AddTo("sos", RawSOS(IdOf("s", Len(aggIn.sos.items) + 1), status, "BLIND", t))

AggAddIncident ==
    /\ CanAdd("incidents")
    /\ \E status \in IncidentStatuses, t \in Times :
          AddTo("incidents",
                RawIncident(IdOf("i", Len(aggIn.incidents.items) + 1), status, "FIRE", "HIGH", t))

\* the three requests settle: a request that delivers no list is rejected,
\* or fulfilled without the key, or fulfilled with a value that is no array;
\* then the function body runs on the settled responses
AggCall ==
    /\ aggPc = "build"
    /\ \E o \in [{src \in Sources : aggIn[src].data # "list"} -> Outcomes \ {Delivering}] :
          LET in == [src \in Sources |->
                        IF aggIn[src].data = "list" THEN aggIn[src] ELSE o[src]] IN
          /\ aggIn' = in
          /\ aggOut' = getAllAlertsForAdmin(in)
    /\ aggPc' = "done"
    /\ UNCHANGED <<netVars, pageVars, appVars>>

AggNext == AggAddMessage \/ AggAddSOS \/ AggAddIncident \/ AggCall

SpecAgg == AggInit /\ [][AggNext]_vars

(***************************************************************************)
(* SpecAdapt: the three adapters on one raw record, reached through        *)
(* getAllAlertsForAdmin; optional fields are present or absent             *)
(***************************************************************************)
SOSAbilities == {"BLIND", "DEAF", "NONE", "undefined"}
RiskLevels == {"LOW", "MEDIUM", "HIGH", "CRITICAL", "undefined"}
IncidentTypes == {"FIRE", "undefined"}
Titles == {"Help", "undefined"}

\* the one response that delivers, holding one record
Single(src, rec) ==
    [s \in Sources |-> IF s = src THEN Response("fulfilled", "list", <<rec>>) ELSE NotDelivering]

AdapterInputs ==
    {Single("messages", [RawMessage("m1", type, read, t) EXCEPT !.title = title]) :
        type \in MessageTypes, read \in RawReadFlags, t \in Times, title \in Titles}
    \cup {Single("sos", RawSOS("s1", status, ability, t)) :
        status \in SOSStatuses, ability \in SOSAbilities, t \in Times}
    \cup {Single("incidents", RawIncident("i1", status, type, risk, t)) :
        status \in IncidentStatuses, type \in IncidentTypes, risk \in RiskLevels, t \in Times}

AdaptInit ==
    /\ aggIn \in AdapterInputs
    /\ aggOut = NoResult
    /\ aggPc = "build"
    /\ NetIdle
    /\ PageIdle
    /\ AppIdle

AdaptNext == AggCall

SpecAdapt == AdaptInit /\ [][AdaptNext]_vars

(***************************************************************************)
(* The backend: the three collections and the three mutation endpoints     *)
(***************************************************************************)
\* the collections the dashboard starts against: one record each, none of
\* them read or resolved yet (a VERIFIED incident counts as read)
InitialBackends ==
    {[messages  |-> <<RawMessage("m1", type, "false", 1)>>,
      sos       |-> <<RawSOS("s1", "NEED_HELP", "BLIND", 2)>>,
      incidents |-> <<RawIncident("i1", status, "FIRE", "HIGH", 1)>>] :
        type \in MessageTypes, status \in {"PENDING", "VERIFIED"}}

\* the collection an endpoint writes to
CollectionOf(endpoint) ==
    CASE endpoint = "markMessageAsRead" -> "messages"
      [] endpoint = "resolveSOS" -> "sos"
      [] OTHER -> "incidents"

Holds(coll, id) == \E i \in 1..Len(coll) : coll[i].id = id

\* what a successful call leaves in the collection
Written(endpoint, rec) ==
    CASE endpoint = "markMessageAsRead" -> [rec EXCEPT !.is_read = "true"]
      [] endpoint = "resolveSOS" -> [rec EXCEPT !.status = "SAFE"]
      [] OTHER -> [rec EXCEPT !.status = "RESOLVED"]

BackendAfter(b, endpoint, id) ==
    [b EXCEPT ![CollectionOf(endpoint)] =
        [i \in 1..Len(@) |-> IF @[i].id = id THEN Written(endpoint, @[i]) ELSE @[i]]]

(***************************************************************************)
(* Calls of getAllAlertsForAdmin in flight                                 *)
(***************************************************************************)
Pending == Response("pending", "absent", <<>>)

NewFetch == [resp |-> [src \in Sources |-> Pending], stale |-> FALSE]

Settled(f) == \A src \in Sources : f.resp[src].status # "pending"

\* one of the three GET requests of call i settles: with the collection as the
\* backend holds it now, or with an error
Serve(i, src, ok) ==
    /\ i \in 1..Len(fetches)
    /\ fetches[i].resp[src].status = "pending"
    /\ fetches' = [fetches EXCEPT ![i].resp[src] =
                      IF ok THEN Response("fulfilled", "list", backend[src])
                            ELSE Response("rejected", "absent", <<>>)]

\* call i leaves the list; the calls that started before it are superseded
Without(fs, i) ==
    [k \in 1..(Len(fs) - 1) |->
        IF k < i THEN [fs[k] EXCEPT !.stale = TRUE] ELSE fs[k + 1]]

(***************************************************************************)
(* AdminActions.jsx                                                        *)
(***************************************************************************)
PageSize == 10          \* alerts.slice(0, 10)

\* a || b on numbers
OrNum(a, b) == IF a = 0 THEN b ELSE a

PageStatsUnreadFallsBackToLength(statsData, alertsList) ==
    [total          |-> OrNum(statsData.total, Len(alertsList)),
     unread         |-> OrNum(statsData.unread, Len(alertsList)),
     sos_count      |-> OrNum(statsData.by_type.SOS, CountIf(alertsList, IsSOS)),
     incident_count |-> OrNum(statsData.by_type.INCIDENT, CountIf(alertsList, IsIncident))]

\* fetchAlerts: the object given to setStats
PageStats(statsData, alertsList) ==
    [total          |-> OrNum(statsData.total, Len(alertsList)),
     unread         |-> OrNum(statsData.unread, CountIf(alertsList, IsUnread)),
     sos_count      |-> OrNum(statsData.by_type.SOS, CountIf(alertsList, IsSOS)),
     incident_count |-> OrNum(statsData.by_type.INCIDENT, CountIf(alertsList, IsIncident))]

\* the decrement taking total down with unread
DecrementedWithTotal(prev) ==
    [prev EXCEPT !.unread = IF prev.unread - 1 > 0 THEN prev.unread - 1 ELSE 0,
                 !.total = IF prev.total - 1 > 0 THEN prev.total - 1 ELSE 0]

\* Math.max(prev.unread - 1, 0)
Decremented(prev) ==
    [prev EXCEPT !.unread = IF prev.unread - 1 > 0 THEN prev.unread - 1 ELSE 0]

\* handleResolve's map writing is_read only
ResolvedLocallyFlagOnly(prev, id, type) ==
    [i \in 1..Len(prev) |->
        IF prev[i].id = id THEN [prev[i] EXCEPT !.is_read = TRUE] ELSE prev[i]]

\* handleResolve's map writing the status only
ResolvedLocallyStatusOnly(prev, id, type) ==
    [i \in 1..Len(prev) |->
        IF prev[i].id = id
        THEN [prev[i] EXCEPT !.status = IF type = "SOS" THEN "SAFE" ELSE "RESOLVED"]
        ELSE prev[i]]

\* handleResolve: prev.map(a => a.id === alert.id ? {...a, is_read: true, status: ...} : a)
ResolvedLocally(prev, id, type) ==
    [i \in 1..Len(prev) |->
        IF prev[i].id = id
        THEN [prev[i] EXCEPT !.is_read = TRUE,
                             !.status = IF type = "SOS" THEN "SAFE" ELSE "RESOLVED"]
        ELSE prev[i]]

\* handleMarkRead: prev.map(a => a.id === alertId ? {...a, is_read: true} : a)
ReadLocally(prev, id) ==
    [i \in 1..Len(prev) |->
        IF prev[i].id = id THEN [prev[i] EXCEPT !.is_read = TRUE] ELSE prev[i]]

\* the rows the page renders: none while loading, else the first ten alerts
Shown ==
    IF isLoading THEN {}
    ELSE {alerts[i] : i \in {k \in 1..Len(alerts) : k <= PageSize}}

PageInit ==
    /\ AggIdle
    /\ backend \in InitialBackends
    /\ fetches = <<>>
    /\ held = "none"
    /\ PageIdle
    /\ AppIdle

\* fetchAlerts up to its await: setIsLoading(true); getAllAlertsForAdmin()
StartFetchAlerts ==
    /\ isLoading' = TRUE
    /\ fetches' = Append(fetches, NewFetch)
    /\ justApplied' = FALSE

\* useEffect(() => { fetchAlerts(); }, [])
Mount ==
    /\ ~mounted
    /\ mounted' = TRUE
    /\ StartFetchAlerts
    /\ UNCHANGED <<aggVars, appVars, backend, held, alerts, stats, muts, acked>>

\* the Refresh button: onClick={fetchAlerts} disabled={isLoading}
ClickRefresh ==
    /\ mounted
    /\ ~isLoading
    /\ StartFetchAlerts
    /\ UNCHANGED <<aggVars, appVars, backend, held, alerts, stats, mounted, muts, acked>>

ServeSource ==
    /\ \E i \in 1..Len(fetches), src \in Sources, ok \in BOOLEAN : Serve(i, src, ok)
    /\ justApplied' = FALSE
    /\ UNCHANGED <<aggVars, appVars, backend, held, alerts, stats, isLoading, mounted, muts,
                   acked>>

\* isLoading cleared only once a non-empty list has arrived
LoadingUntilNonEmpty(data) == data.value.messages = <<>>

\* finally { setIsLoading(false) }: whatever the call came to
LoadingAfterFetch(data) == FALSE

\* fetchAlerts from its await on: try { setAlerts; setStats } catch { setAlerts([]) }
\* finally { setIsLoading(false) }
FetchAlertsDone ==
    \E i \in 1..Len(fetches) :
        /\ Settled(fetches[i])
        /\ LET data == getAllAlertsForAdmin(fetches[i].resp) IN
           /\ IF data.settled = "resolved"
              THEN /\ alerts' = data.value.messages
                   /\ stats' = PageStats(data.value.stats, data.value.messages)
              ELSE /\ alerts' = <<>>
                   /\ stats' = stats
           /\ isLoading' = LoadingAfterFetch(data)
        /\ held' = IF fetches[i].stale THEN "stale" ELSE "latest"
        /\ fetches' = Without(fetches, i)
        /\ justApplied' = TRUE
        /\ UNCHANGED <<aggVars, appVars, backend, mounted, muts, acked>>

Call(op, endpoint, a) ==
    [op |-> op, endpoint |-> endpoint, id |-> a.id, message_type |-> a.message_type,
     state |-> "sent"]

\* handleResolve routes on alert.message_type
ResolveEndpoint(a) ==
    CASE a.message_type = "SOS" -> "resolveSOS"
      [] a.message_type = "INCIDENT" -> "resolveIncident"
      [] OTHER -> "none"

\* handleResolve(alert) up to its await: an SOS or INCIDENT alert awaits its
\* endpoint; for any other type nothing is awaited and the local update runs
\* at once. Nothing looks the alert up in alerts first.
HandleResolve(a) ==
    /\ IF ResolveEndpoint(a) # "none"
       THEN /\ BagCardinality(muts) < MaxMutations
            /\ muts' = muts (+) SetToBag({Call("resolve", ResolveEndpoint(a), a)})
            /\ UNCHANGED <<alerts, stats>>
       ELSE /\ alerts' = ResolvedLocally(alerts, a.id, a.message_type)
            /\ stats' = Decremented(stats)
            /\ UNCHANGED muts
    /\ justApplied' = FALSE
    /\ UNCHANGED <<aggVars, appVars, netVars, isLoading, mounted, acked>>

\* handleMarkRead(alertId) up to its await. Nothing looks the id up in alerts first.
HandleMarkRead(a) ==
    /\ BagCardinality(muts) < MaxMutations
    /\ muts' = muts (+) SetToBag({Call("markRead", "markMessageAsRead", a)})
    /\ justApplied' = FALSE
    /\ UNCHANGED <<aggVars, appVars, netVars, alerts, stats, isLoading, mounted, acked>>

\* the Resolve button (status is neither SAFE nor RESOLVED) calling handleResolve(alert)
ClickResolve ==
    \E a \in Shown :
        /\ a.status # "SAFE" /\ a.status # "RESOLVED"
        /\ HandleResolve(a)

\* the Mark Read button (!alert.is_read) calling handleMarkRead(alert.id)
ClickMarkRead ==
    \E a \in Shown :
        /\ ~a.is_read
        /\ HandleMarkRead(a)

\* the backend answers a mutation request: it succeeds only on a record of the
\* endpoint's own collection, and any request may fail
BackendAnswers ==
    \E c \in BagToSet(muts), ok \in BOOLEAN :
        /\ c.state = "sent"
        /\ ok => Holds(backend[CollectionOf(c.endpoint)], c.id)
        /\ muts' = (muts (-) SetToBag({c}))
                       (+) SetToBag({[c EXCEPT !.state = IF ok THEN "ok" ELSE "failed"]})
        /\ backend' = IF ok THEN BackendAfter(backend, c.endpoint, c.id) ELSE backend
        /\ justApplied' = FALSE
        /\ UNCHANGED <<aggVars, appVars, fetches, held, alerts, stats, isLoading, mounted, acked>>

\* handleResolve / handleMarkRead after the await, setAlerts: the map over prev
\* when the call returned, nothing when it threw (the catch only logs)
AlertsAfterOptimistic(c, prev) ==
    IF c.op = "resolve"
    THEN ResolvedLocally(prev, c.id, c.message_type)
    ELSE ReadLocally(prev, c.id)

AlertsAfter(c, prev) ==
    IF c.state = "ok"
    THEN IF c.op = "resolve"
         THEN ResolvedLocally(prev, c.id, c.message_type)
         ELSE ReadLocally(prev, c.id)
    ELSE prev

\* handleResolve / handleMarkRead after the await, setStats
StatsAfter(c, prev) == IF c.state = "ok" THEN Decremented(prev) ELSE prev

\* handleResolve / handleMarkRead after the await: the local update on
\* success, the catch block (console.error only) on failure
MutationSettles ==
    \E c \in BagToSet(muts) :
        /\ c.state # "sent"
        /\ alerts' = AlertsAfter(c, alerts)
        /\ stats' = StatsAfter(c, stats)
        /\ acked' = IF c.state = "ok" THEN acked \cup {c.id} ELSE acked
        /\ muts' = muts (-) SetToBag({c})
        /\ justApplied' = FALSE
        /\ UNCHANGED <<aggVars, appVars, netVars, isLoading, mounted>>

Next ==
    \/ Mount
    \/ ClickRefresh
    \/ ServeSource
    \/ FetchAlertsDone
    \/ ClickResolve
    \/ ClickMarkRead
    \/ BackendAnswers
    \/ MutationSettles

Spec == PageInit /\ [][Next]_vars

(***************************************************************************)
(* SpecLoad: the page's fetchAlerts alone (mount and Refresh), with the     *)
(* requests always answered and the function always running on after its   *)
(* await                                                                   *)
(***************************************************************************)
LoadNext ==
    \/ Mount
    \/ ClickRefresh
    \/ ServeSource
    \/ FetchAlertsDone

SpecLoad ==
    /\ PageInit
    /\ [][LoadNext]_vars
    /\ WF_vars(ServeSource)
    /\ WF_vars(FetchAlertsDone)

(***************************************************************************)
(* The two handlers as operations of the page, called with any argument:   *)
(* an alert of the list, an alert the list no longer has, an unknown id.   *)
(***************************************************************************)
UnknownId == "x1"

HandlerIds == {"m1", "s1", "i1", UnknownId}

\* the arguments handleResolve reads: alert.id and alert.message_type
HandlerAlerts == [id : HandlerIds, message_type : MessageTypes]

Listed(id) == \E i \in 1..Len(alerts) : alerts[i].id = id

InvokeResolve ==
    /\ mounted
    /\ \E a \in HandlerAlerts : HandleResolve(a)

InvokeMarkRead ==
    /\ mounted
    /\ \E id \in HandlerIds : HandleMarkRead([id |-> id, message_type |-> "undefined"])

NextHandler ==
    \/ Mount
    \/ ServeSource
    \/ FetchAlertsDone
    \/ InvokeResolve
    \/ InvokeMarkRead
    \/ BackendAnswers
    \/ MutationSettles

SpecHandler == PageInit /\ [][NextHandler]_vars

(***************************************************************************)
(* App.jsx                                                                 *)
(***************************************************************************)
MaxInFlight == 2        \* calls of getAllAlertsForAdmin App has in flight at once

\* the collections App polls: nothing read yet, or everything read
AppBackends ==
    InitialBackends \cup
    {[messages  |-> <<RawMessage("m1", "GENERAL", "true", 1)>>,
      sos       |-> <<RawSOS("s1", "SAFE", "BLIND", 2)>>,
      incidents |-> <<RawIncident("i1", "RESOLVED", "FIRE", "HIGH", 1)>>]}

\* messagesList.map(msg => ({ id, alertType, status, severity, ... })): the
\* converted alert carries no is_read field
ToAppAlert(msg) ==
    [id        |-> msg.id,
     alertType |-> IF msg.message_type = "SOS" THEN "SOS Alert"
                   ELSE IF msg.message_type = "INCIDENT" THEN "Incident" ELSE "Message",
     status    |-> IF msg.is_read THEN "Resolved" ELSE "Active",
     severity  |-> msg.severity]

\* alertsList.filter(m => !m.is_read).length: m.is_read is undefined on a
\* converted alert, so every element passes the filter
AppUnreadFallback(alertsList) == Len(alertsList)

\* the object given to setStats (statsData.by_type is an object, so truthy)
AppStatsOf(statsData, alertsList) ==
    [total   |-> OrNum(statsData.total, Len(alertsList)),
     unread  |-> OrNum(statsData.unread, AppUnreadFallback(alertsList)),
     by_type |-> statsData.by_type]

AppInit ==
    /\ AggIdle
    /\ backend \in AppBackends
    /\ fetches = <<>>
    /\ held = "none"
    /\ PageIdle
    /\ appMounted = TRUE
    /\ appLoggedIn \in BOOLEAN
    /\ appIsLoading = TRUE
    /\ appAlerts = <<>>
    /\ appStats = AppZeroStats
    /\ appEffects = TRUE
    /\ appInterval = FALSE

\* fetchData up to its await: getAllAlertsForAdmin() is called; isLoading is
\* not touched
StartFetchData ==
    /\ Len(fetches) < MaxInFlight
    /\ fetches' = Append(fetches, NewFetch)

\* both useEffect bodies, run after a render in which isLoggedIn changed (or
\* the first render): if (isLoggedIn) fetchData(); if (isLoggedIn) setInterval
AppRunEffects ==
    /\ appMounted
    /\ appEffects
    /\ appEffects' = FALSE
    /\ IF appLoggedIn
       THEN /\ StartFetchData
            /\ appInterval' = TRUE
       ELSE UNCHANGED <<fetches, appInterval>>
    /\ UNCHANGED <<aggVars, pageVars, backend, held, appMounted, appLoggedIn, appIsLoading,
                   appAlerts, appStats>>

\* handleLogin(true) from the Login page: setIsLoggedIn(true); fetchData()
AppHandleLogin ==
    /\ appMounted
    /\ ~appLoggedIn
    /\ ~appEffects
    /\ appLoggedIn' = TRUE
    /\ StartFetchData
    /\ appEffects' = TRUE
    /\ UNCHANGED <<aggVars, pageVars, backend, held, appMounted, appIsLoading, appAlerts,
                   appStats, appInterval>>

\* the setInterval callback, every 10 s whether or not a call is in flight
AppIntervalTick ==
    /\ appInterval
    /\ StartFetchData
    /\ UNCHANGED <<aggVars, pageVars, backend, held, appVars>>

AppServeSource ==
    /\ \E i \in 1..Len(fetches), src \in Sources, ok \in BOOLEAN : Serve(i, src, ok)
    /\ UNCHANGED <<aggVars, pageVars, backend, held, appVars>>

\* a useState setter called after the component unmounted changes nothing
SetterAlwaysApplies(isMounted) == TRUE

SetterApplies(isMounted) == isMounted

\* fetchData from its await on: try { setMessages; setAlerts; setStats }
\* catch { empty everything } finally { setIsLoading(false) }
AppFetchDataDone ==
    \E i \in 1..Len(fetches) :
        /\ Settled(fetches[i])
        /\ IF SetterApplies(appMounted)
           THEN /\ LET data == getAllAlertsForAdmin(fetches[i].resp) IN
                   IF data.settled = "resolved"
                   THEN LET alertsList == MapSeq(data.value.messages, ToAppAlert) IN
                        /\ appAlerts' = alertsList
                        /\ appStats' = AppStatsOf(data.value.stats, alertsList)
                   ELSE /\ appAlerts' = <<>>
                        /\ appStats' = AppZeroStats
                /\ appIsLoading' = FALSE
                /\ held' = IF fetches[i].stale THEN "stale" ELSE "latest"
           ELSE /\ held' = "discarded"
                /\ UNCHANGED <<appAlerts, appStats, appIsLoading>>
        /\ fetches' = Without(fetches, i)
        /\ UNCHANGED <<aggVars, pageVars, backend, appMounted, appLoggedIn, appEffects,
                       appInterval>>

\* the interval effect's cleanup: return () => clearInterval(interval)
IntervalLeftRunning(interval) == interval

IntervalAfterCleanup(interval) == FALSE

\* App unmounts (the page is left or torn down): the effects' cleanups run,
\* effects still due are dropped, and the component's state goes with it
\* (shown here as the useState initial values)
AppUnmount ==
    /\ appMounted
    /\ appMounted' = FALSE
    /\ appInterval' = IntervalAfterCleanup(appInterval)
    /\ appEffects' = FALSE
    /\ appIsLoading' = TRUE
    /\ appAlerts' = <<>>
    /\ appStats' = AppZeroStats
    /\ UNCHANGED <<aggVars, pageVars, netVars, appLoggedIn>>

AppNext ==
    \/ AppRunEffects
    \/ AppHandleLogin
    \/ AppIntervalTick
    \/ AppServeSource
    \/ AppFetchDataDone

SpecApp == AppInit /\ [][AppNext]_vars

\* SpecAppLife: App from its first render to its unmount, against one backend
LifeBackend ==
    [messages  |-> <<RawMessage("m1", "GENERAL", "false", 1)>>,
     sos       |-> <<RawSOS("s1", "NEED_HELP", "BLIND", 2)>>,
     incidents |-> <<RawIncident("i1", "PENDING", "FIRE", "HIGH", 1)>>]

AppLifeInit ==
    /\ AppInit
    /\ backend = LifeBackend

AppLifeNext ==
    \/ AppRunEffects
    \/ AppHandleLogin
    \/ AppIntervalTick
    \/ AppServeSource
    \/ AppFetchDataDone
    \/ AppUnmount

SpecAppLife == AppLifeInit /\ [][AppLifeNext]_vars

(***************************************************************************)
(* Properties of the aggregator (SpecAgg)                                  *)
(***************************************************************************)
Succeeded(src) == aggIn[src].status = "fulfilled" /\ aggIn[src].data = "list"
Failed(src) == aggIn[src].status = "rejected"

SourceTypeOf(src) ==
    CASE src = "messages" -> "MESSAGE" [] src = "sos" -> "SOS" [] OTHER -> "INCIDENT"

IdsOf(s) == {s[i].id : i \in 1..Len(s)}

\* C1: every snapshot returned by getAllAlertsForAdmin has stats.total equal to
\* the number of alerts, stats.unread equal to the number of alerts with
\* is_read false, and by_type.SOS + by_type.INCIDENT + by_type.GENERAL equal
\* to stats.total, whatever the sources hold and whichever of them fail.
C1_StatsConsistent ==
    aggPc = "done" =>
        LET snap == aggOut.value IN
        /\ snap.stats.total = Len(snap.messages)
        /\ snap.stats.unread =
              Cardinality({i \in 1..Len(snap.messages) : snap.messages[i].is_read = FALSE})
        /\ snap.stats.by_type.SOS + snap.stats.by_type.INCIDENT
              + snap.stats.by_type.GENERAL = snap.stats.total

\* a snapshot of three alerts, read and unread, built while one source failed
C1_Witness ==
    /\ aggPc = "done"
    /\ \E src \in Sources : Failed(src)
    /\ Len(aggOut.value.messages) = 3
    /\ aggOut.value.stats.unread = 2

C4_NeverRejects ==
    aggPc = "done" =>
        /\ aggOut.settled = "resolved"
        /\ (\A src \in Sources : Failed(src)) =>
              /\ aggOut.value.messages = <<>>
              /\ aggOut.value.stats.total = 0
              /\ aggOut.value.stats.unread = 0
              /\ aggOut.value.stats.by_type = [SOS |-> 0, INCIDENT |-> 0, GENERAL |-> 0]

\* all three fetches rejected and the call has settled
C4_Witness ==
    /\ aggPc = "done"
    /\ \A src \in Sources : Failed(src)
    /\ aggOut.settled = "resolved"

(***************************************************************************)
(* Properties of the AdminActions page (Spec) and of App (SpecApp)         *)
(***************************************************************************)
Unread(list) == Cardinality({i \in 1..Len(list) : list[i].is_read = FALSE})

\* C2: after any sequence of fetchAlerts, handleMarkRead and handleResolve the
\* unread count shown by AdminActions equals the number of alerts in its list
\* with is_read false.
C2_UnreadMatchesAlerts == stats.unread = Unread(alerts)

\* C5: at most one call of getAllAlertsForAdmin is in flight at any time: a
\* fetch triggered while another has not completed starts no second call.
C5_OneCycleInFlight == Len(fetches) <= 1

\* C6: the snapshot held always comes from the latest-started call that has
\* completed: the result of a call that a later-started call has already
\* overtaken is dropped, never applied.
C6_NoStaleSnapshotApplied == held # "stale"

\* C7: a mark-read or resolve that succeeded and was applied locally is never
\* erased by a fetch: the alert stays shown as read in every later state.
C7_AckedStaysRead ==
    \A i \in 1..Len(alerts) : alerts[i].id \in acked => alerts[i].is_read

ShowsUnread(list, id) == \E k \in 1..Len(list) : list[k].id = id /\ ~list[k].is_read
ShowsRead(list, id) == \E k \in 1..Len(list) : list[k].id = id /\ list[k].is_read

\* C8: when a message was marked read locally and one fetch then completes
\* whose raw data still shows that message unread, the list after the fetch
\* still shows it read.
C8_MarkReadSurvivesOnePoll ==
    [][(justApplied' /\ Len(fetches) = 1) =>
          LET raw == getAllAlertsForAdmin(fetches[1].resp).value.messages IN
          \A i \in 1..Len(alerts) :
              (/\ alerts[i].sourceType = "MESSAGE"
               /\ alerts[i].id \in acked
               /\ alerts[i].is_read
               /\ ShowsUnread(raw, alerts[i].id)) => ShowsRead(alerts', alerts[i].id)]_vars

\* C9: right after a fetch is applied the unread count equals the number of
\* unread alerts of the snapshot just applied; an alert that was marked read
\* locally and that the raw data now shows read is not subtracted a second time.
C9_NoDoubleCount == justApplied => stats.unread = Unread(alerts)

\* a fetch was just applied, its data shows a locally marked-read message as
\* read, and other alerts are still unread
C9_Witness ==
    /\ justApplied
    /\ \E i \in 1..Len(alerts) :
          /\ alerts[i].sourceType = "MESSAGE"
          /\ alerts[i].id \in acked
          /\ alerts[i].is_read
    /\ Unread(alerts) >= 1
    /\ stats.unread = Unread(alerts)

\* the endpoint that owns an alert of the given source
OwnEndpoint(sourceType) ==
    CASE sourceType = "SOS" -> "resolveSOS"
      [] sourceType = "INCIDENT" -> "resolveIncident"
      [] OTHER -> "markMessageAsRead"

\* C10: every call a handler issues goes to the endpoint of the alert's own
\* source: resolveSOS for an SOS-sourced alert, resolveIncident for an
\* Incident-sourced one, markMessageAsRead for a Message-sourced one.
C10_RoutedBySource ==
    [][\A c \in BagToSet(muts') :
          (c.state = "sent" /\ CopiesIn(c, muts') > CopiesIn(c, muts)) =>
              \A i \in 1..Len(alerts) :
                  alerts[i].id = c.id => c.endpoint = OwnEndpoint(alerts[i].sourceType)]_vars

\* C11: a handleResolve / handleMarkRead call whose backend request fails
\* changes neither alerts nor stats at any step of its life: not when it is
\* issued, not when the backend answers, not when the catch block runs (the
\* one step of a call that may change them is the one after a successful
\* answer)
C11_FailedCallLeavesLocalState ==
    [][(/\ muts' # muts
        /\ ~\E c \in BagToSet(muts) : c.state = "ok" /\ CopiesIn(c, muts') < CopiesIn(c, muts))
           => (alerts' = alerts /\ stats' = stats)]_vars

\* the backend call has failed for an alert that is listed and unread; the
\* catch block is what is left of the handler
C11_Witness ==
    /\ stats.unread > 0
    /\ \E c \in BagToSet(muts) :
          /\ c.state = "failed"
          /\ \E i \in 1..Len(alerts) : alerts[i].id = c.id /\ ~alerts[i].is_read

ResolvedUpstream(id) ==
    \/ \E i \in 1..Len(backend.sos) :
           backend.sos[i].id = id /\ backend.sos[i].status = "SAFE"
    \/ \E i \in 1..Len(backend.incidents) :
           backend.incidents[i].id = id /\ backend.incidents[i].status = "RESOLVED"

\* C13: once a resolve of an alert has succeeded at the backend and has been
\* applied locally, no further resolve call is issued for that alert
C13_ResolveIdempotent ==
    [][\A c \in BagToSet(muts') :
          (c.op = "resolve" /\ c.state = "sent" /\ CopiesIn(c, muts') > CopiesIn(c, muts))
              => ~(c.id \in acked /\ ResolvedUpstream(c.id))]_vars

\* C14: a call of getAllAlertsForAdmin is started only while App is mounted
\* and, after the step, logged in: once App has unmounted, or while nobody is
\* logged in, fetchData is never called
C14_NoFetchAfterCancel ==
    [][Len(fetches') > Len(fetches) => (appMounted /\ appLoggedIn')]_vars

\* App polled, then unmounted: the timer is cleared
C14_Witness ==
    /\ ~appMounted
    /\ appLoggedIn
    /\ ~appInterval
    /\ held # "none"

AppExposed(result) ==
    IF result.settled = "resolved"
    THEN LET alertsList == MapSeq(result.value.messages, ToAppAlert) IN
         [alerts |-> alertsList, stats |-> AppStatsOf(result.value.stats, alertsList),
          isLoading |-> FALSE]
    ELSE [alerts |-> <<>>, stats |-> AppZeroStats, isLoading |-> FALSE]

\* C16: when all three requests are rejected, what App holds afterwards
\* differs from what it holds after three requests that each delivered an
\* empty list
C16_TotalFailureDistinguishable ==
    (aggPc = "done" /\ \A src \in Sources : Failed(src))
        => AppExposed(aggOut) # AppExposed(getAllAlertsForAdmin([src \in Sources |-> Delivering]))

\* C17: in the list returned by getAllAlertsForAdmin every alert has a
\* created_at greater than or equal to that of the alert after it
C17_SortedDescending ==
    aggPc = "done" =>
        LET got == aggOut.value.messages IN
        \A i \in 1..Len(got) : i < Len(got) => got[i].created_at >= got[i + 1].created_at

\* the sort moved an SOS alert in front of an older message, which the
\* concatenation had put first
C17_Witness ==
    /\ aggPc = "done"
    /\ Len(aggOut.value.messages) = MaxRecords
    /\ aggOut.value.messages[1].sourceType = "SOS"
    /\ aggOut.value.messages[2].sourceType = "MESSAGE"
    /\ aggOut.value.messages[1].created_at > aggOut.value.messages[2].created_at

\* the text fields every alert of the unified list is to carry, next to the
\* boolean is_read and the instant created_at
CanonicalTextFields ==
    {"id", "message_type", "sourceType", "title", "severity", "status", "backendId"}

\* C18: every alert an adapter produces has every canonical field present,
\* whatever optional fields the raw record lacks, and carries the upstream
\* id both as id and as _backendId
C18_CanonicalFieldsPresent ==
    aggPc = "done" =>
        \A src \in Sources :
            (Succeeded(src) /\ Len(aggOut.value.messages) = 1) =>
                LET raw == aggIn[src].items[1]
                    alert == aggOut.value.messages[1] IN
                /\ \A f \in CanonicalTextFields : alert[f] # "undefined"
                /\ alert.is_read \in BOOLEAN
                /\ alert.created_at \in Times
                /\ alert.id = raw.id
                /\ alert.backendId = raw.id

\* C19: the SOS adapter yields message_type SOS, severity critical, the title
\* "SOS Alert (<ability>)" and is_read exactly when status is SAFE; a
\* NEED_HELP record of ability BLIND becomes an unread critical alert titled
\* "SOS Alert (BLIND)"
C19_SOSAdapter ==
    (aggPc = "done" /\ Succeeded("sos") /\ Len(aggOut.value.messages) = 1) =>
        LET raw == aggIn.sos.items[1]
            alert == aggOut.value.messages[1] IN
        /\ alert.message_type = "SOS"
        /\ alert.severity = "critical"
        /\ raw.ability # "undefined" => alert.title = "SOS Alert (" \o raw.ability \o ")"
        /\ alert.is_read <=> raw.status = "SAFE"
        /\ (raw.status = "NEED_HELP" /\ raw.ability = "BLIND") =>
               (~alert.is_read /\ alert.title = "SOS Alert (BLIND)")

\* both a SAFE and a NEED_HELP record have gone through the adapter: this is
\* the SAFE one, of an ability other than the example's
C19_Witness ==
    /\ aggPc = "done"
    /\ Succeeded("sos")
    /\ Len(aggOut.value.messages) = 1
    /\ aggIn.sos.items[1].status = "SAFE"
    /\ aggIn.sos.items[1].ability = "DEAF"
    /\ aggOut.value.messages[1].is_read

\* C20: the incident adapter yields message_type INCIDENT, the lower-cased
\* risk_level as severity, or medium when risk_level is absent, and is_read
\* exactly when status is RESOLVED or VERIFIED
C20_IncidentAdapter ==
    (aggPc = "done" /\ Succeeded("incidents") /\ Len(aggOut.value.messages) = 1) =>
        LET raw == aggIn.incidents.items[1]
            alert == aggOut.value.messages[1] IN
        /\ alert.message_type = "INCIDENT"
        /\ <<raw.risk_level, alert.severity>> \in
               {<<"LOW", "low">>, <<"MEDIUM", "medium">>, <<"HIGH", "high">>,
                <<"CRITICAL", "critical">>, <<"undefined", "medium">>}
        /\ alert.is_read <=> raw.status \in {"RESOLVED", "VERIFIED"}

\* a PENDING incident without risk_level has gone through the adapter
C20_Witness ==
    /\ aggPc = "done"
    /\ Succeeded("incidents")
    /\ Len(aggOut.value.messages) = 1
    /\ aggIn.incidents.items[1].risk_level = "undefined"
    /\ aggIn.incidents.items[1].status = "PENDING"
    /\ aggOut.value.messages[1].severity = "medium"
    /\ ~aggOut.value.messages[1].is_read

\* C21: in the step in which handleResolve runs on after a successful
\* backend call, the alert it resolved is read in alerts; no fetch is needed
C21_ResolveReadsAtOnce ==
    [][\A c \in BagToSet(muts) :
          (c.op = "resolve" /\ c.state = "ok" /\ CopiesIn(c, muts') < CopiesIn(c, muts))
              => \A i \in 1..Len(alerts') : alerts'[i].id = c.id => alerts'[i].is_read]_vars

\* the SOS alert has been resolved and shows read and SAFE; no fetch is in
\* flight and the last step was not a fetch applying a snapshot
C21_Witness ==
    /\ "s1" \in acked
    /\ ~justApplied
    /\ fetches = <<>>
    /\ held = "latest"
    /\ \E i \in 1..Len(alerts) :
          alerts[i].id = "s1" /\ alerts[i].is_read /\ alerts[i].status = "SAFE"

\* C22: every step of App that starts a call of getAllAlertsForAdmin (first
\* render, interval, login) leaves isLoading true
C22_EveryCycleLoads ==
    [][Len(fetches') > Len(fetches) => appIsLoading']_vars

HandlerResult(c) == [settled |-> "resolved", value |-> "undefined"]

\* C24: a handler call whose backend request failed completes with a result
\* that differs from the result of the same call succeeding
C24_OutcomeReported ==
    \A c \in BagToSet(muts) :
        c.state = "failed" => HandlerResult(c) # HandlerResult([c EXCEPT !.state = "ok"])

\* C25: the unread count App holds equals the number of unread alerts of the
\* snapshot it last applied (an alert converted from an unread message has
\* status Active), also when that snapshot is non-empty and all read
C25_AppUnreadMatchesSnapshot ==
    appStats.unread = Cardinality({i \in 1..Len(appAlerts) : appAlerts[i].status = "Active"})

C27_ReadOnlyAfterBackendSuccess ==
    [][(~justApplied' /\ Len(alerts') = Len(alerts)) =>
          \A i \in 1..Len(alerts) :
              (~alerts[i].is_read /\ alerts'[i].is_read) =>
                  \E c \in BagToSet(muts) :
                      /\ c.id = alerts[i].id
                      /\ c.state = "ok"
                      /\ CopiesIn(c, muts') < CopiesIn(c, muts)]_vars

\* C28: a step of handleMarkRead / handleResolve (any step that is not
\* fetchAlerts applying a snapshot) keeps the length and order of alerts,
\* changes at most one alert and of that one only is_read and status, and
\* keeps stats.total, sos_count and incident_count; when the step follows a
\* successful backend call the alert changed is the one the call was for
C28_OnlyTargetChanges ==
    [][~justApplied' =>
          /\ Len(alerts') = Len(alerts)
          /\ \A i \in 1..Len(alerts) :
                alerts'[i] = [alerts[i] EXCEPT !.is_read = alerts'[i].is_read,
                                               !.status = alerts'[i].status]
          /\ Cardinality({i \in 1..Len(alerts) : alerts'[i] # alerts[i]}) <= 1
          /\ \A c \in BagToSet(muts) :
                (c.state = "ok" /\ CopiesIn(c, muts') < CopiesIn(c, muts)) =>
                    \A i \in 1..Len(alerts) : alerts[i].id # c.id => alerts'[i] = alerts[i]
          /\ stats'.total = stats.total
          /\ stats'.sos_count = stats.sos_count
          /\ stats'.incident_count = stats.incident_count]_vars

\* Mark Read on the message succeeded in a list of three: the message is
\* read, the SOS alert next to it is as the fetch left it, total is still 3
C28_Witness ==
    /\ acked = {"m1"}
    /\ ~justApplied
    /\ Len(alerts) = 3
    /\ stats.total = 3
    /\ \E i \in 1..Len(alerts) : alerts[i].id = "m1" /\ alerts[i].is_read
    /\ \E i \in 1..Len(alerts) :
          alerts[i].id = "s1" /\ ~alerts[i].is_read /\ alerts[i].status = "NEED_HELP"

\* C29: whenever a call of getAllAlertsForAdmin is in flight, isLoading is
\* false at some later moment, whatever the three requests come to; and once
\* the page has mounted and no call is in flight, isLoading is false
C29_LoadingEnds ==
    /\ (fetches # <<>>) ~> ~isLoading
    /\ [](mounted /\ fetches = <<>> => ~isLoading)

\* the fetch ended with nothing delivered and the page has left loading
C29_Witness ==
    /\ mounted
    /\ fetches = <<>>
    /\ held = "latest"
    /\ alerts = <<>>
    /\ ~isLoading

====
